---------------------------- MODULE Spec2Model ----------------------------
(***************************************************************************)
(* The query sheet src/queries.js run against the `books` collection of    *)
(* the plp_bookstore database.  The collection is a sequence of documents  *)
(* in natural (storage) order; every entry of the sheet is one action that *)
(* evaluates the query or pipeline exactly as written in the sheet.        *)
(* Prices are held in cents (12.99 is 1299); quotients ($divide, $avg) are *)
(* held as exact fractions [num, den].                                     *)
(***************************************************************************)
EXTENDS Integers, Sequences, FiniteSets, TLC

VARIABLES books, indexes, lastOp, result, pages

vars == <<books, indexes, lastOp, result, pages>>

(***************************************************************************)
(* Bounds of the model.                                                    *)
(***************************************************************************)
MaxBooks == 2
MaxPageBooks == 11
PagesBeyond == 1

(***************************************************************************)
(* The documents the seed script may have stored (without their _id).      *)
(***************************************************************************)
Book(t, a, g, y, p, s) ==
    [title |-> t, author |-> a, genre |-> g, published_year |-> y,
     price |-> p, in_stock |-> s]

CatalogueSeq ==
    << Book("1984", "George Orwell", "Dystopian", 1949, 1099, TRUE),
       Book("Brave New World", "Aldous Huxley", "Dystopian", 1932, 1150, FALSE),
       Book("To Kill a Mockingbird", "Harper Lee", "Fiction", 1960, 1299, TRUE),
       Book("Animal Farm", "George Orwell", "Fiction", 1945, 850, FALSE),
       Book("Shogun", "James Clavell", "Fiction", 1975, 1099, TRUE),
       Book("The Way of Kings", "Brandon Sanderson", "Fantasy", 2010, 999, TRUE),
       Book("Go Set a Watchman", "Harper Lee", "Fiction", 2015, 1299, TRUE),
       Book("The Martian", "Andy Weir", "Fantasy", 2014, 899, FALSE) >>

Catalogue == { CatalogueSeq[i] : i \in DOMAIN CatalogueSeq }

WithId(b, id) ==
    [f \in DOMAIN b \cup {"_id"} |-> IF f = "_id" THEN id ELSE b[f]]

Range(s) == { s[i] : i \in DOMAIN s }

Min(a, b) == IF a <= b THEN a ELSE b

(***************************************************************************)
(* Query operators of the document store, as the sheet uses them.          *)
(***************************************************************************)
\* One condition of a filter document: <<field, operator, value>>.
Compare(v, op, x) ==
    CASE op = "$eq"  -> v = x
      [] op = "$gt"  -> v > x
      [] op = "$gte" -> v >= x

Matches(doc, filter) ==
    \A c \in filter : Compare(doc[c[1]], c[2], c[3])

\* find(filter): the matching documents, in natural order.
Find(coll, filter) ==
    SelectSeq(coll, LAMBDA d : Matches(d, filter))

\* $match stage of a pipeline.
Match(coll, filter) ==
    SelectSeq(coll, LAMBDA d : Matches(d, filter))

\* Mutant of ProjectFields: the exclusion of _id is ignored.
ProjectFieldsKeepId(doc, projection) ==
    LET included == { f \in DOMAIN projection : projection[f] = 1 }
    IN  [f \in (included \cup {"_id"}) \cap DOMAIN doc |-> doc[f]]

\* A projection document maps field names to 1 (include) or 0 (exclude);
\* in an inclusion projection _id is kept unless it is excluded by name.
ProjectFields(doc, projection) ==
    LET included == { f \in DOMAIN projection : projection[f] = 1 }
        keepId   == ~ ("_id" \in DOMAIN projection /\ projection["_id"] = 0)
        fields   == (included \cup (IF keepId THEN {"_id"} ELSE {}))
                        \cap DOMAIN doc
    IN  [f \in fields |-> doc[f]]

Project(coll, projection) ==
    [i \in DOMAIN coll |-> ProjectFields(coll[i], projection)]

Skip(coll, n) == SubSeq(coll, n + 1, Len(coll))

Limit(coll, n) == SubSeq(coll, 1, Min(n, Len(coll)))


(***************************************************************************)
(* Sorting.  A sort key is a number; exact fractions order by cross        *)
(* multiplication.  The store fixes no order among documents whose keys    *)
(* are equal, so a sort yields any ordering that respects the key.         *)
(***************************************************************************)
SortKey(doc, field) ==
    IF field = "averagePrice"
    THEN doc[field]
    ELSE [num |-> doc[field], den |-> 1]

\* a comes no later than b under direction dir (1 ascending, -1 descending).
InOrder(a, b, field, dir) ==
    LET x == SortKey(a, field)
        y == SortKey(b, field)
    IN  IF dir = 1
        THEN x.num * y.den <= y.num * x.den
        ELSE x.num * y.den >= y.num * x.den

RECURSIVE Sort(_, _, _)
Sort(docs, field, dir) ==
    IF docs = {}
    THEN { <<>> }
    ELSE LET firsts == { d \in docs :
                           \A e \in docs : InOrder(d, e, field, dir) }
         IN  UNION { { <<d>> \o rest : rest \in Sort(docs \ {d}, field, dir) }
                     : d \in firsts }

(***************************************************************************)
(* Aggregation expressions and accumulators.                               *)
(***************************************************************************)
Divide(a, b) == [num |-> a, den |-> b]

\* Mutant of Floor: rounds to the nearest integer.
Round(q) == (2 * q.num + q.den) \div (2 * q.den)

Floor(q) == q.num \div q.den

Multiply(a, b) == a * b

RECURSIVE Sum(_)
Sum(values) ==
    IF values = <<>> THEN 0 ELSE Head(values) + Sum(Tail(values))

\* Mutant of Avg: the sum is not divided ($sum in place of $avg).
AvgAsSum(values) == [num |-> Sum(values), den |-> 1]

\* $avg: the sum of the values over their number.
Avg(values) == [num |-> Sum(values), den |-> Len(values)]

\* The documents of coll whose field has value key, in natural order.
GroupMembers(coll, field, key) ==
    SelectSeq(coll, LAMBDA d : d[field] = key)

\* $group: { _id: "$genre", averagePrice: { $avg: "$price" } }
GroupByGenre(coll) ==
    { [_id |-> g,
       averagePrice |->
           LET members == GroupMembers(coll, "genre", g)
           IN  Avg([i \in DOMAIN members |-> members[i].price])]
      : g \in { coll[i].genre : i \in DOMAIN coll } }

\* $group: { _id: "$author", bookCount: { $sum: 1 } }
GroupByAuthor(coll) ==
    { [_id |-> a,
       bookCount |->
           LET members == GroupMembers(coll, "author", a)
           IN  Sum([i \in DOMAIN members |-> 1])]
      : a \in { coll[i].author : i \in DOMAIN coll } }

\* _id: { $floor: { $divide: ["$published_year", 10] } }
DecadeKey(doc) == Floor(Divide(doc.published_year, 10))

\* $group: { _id: <DecadeKey>, bookCount: { $sum: 1 } }
GroupByDecade(coll) ==
    { [_id |-> k,
       bookCount |->
           LET members == SelectSeq(coll, LAMBDA d : DecadeKey(d) = k)
           IN  Sum([i \in DOMAIN members |-> 1])]
      : k \in { DecadeKey(coll[i]) : i \in DOMAIN coll } }

\* $project: { decade: { $multiply: ["$_id", 10] }, bookCount: 1, _id: 0 }
ProjectDecade(groups) ==
    { [decade |-> Multiply(g._id, 10), bookCount |-> g.bookCount]
      : g \in groups }

(***************************************************************************)
(* Writes.                                                                 *)
(***************************************************************************)
\* Mutant of SetFields: the document is replaced by the assignment, only
\* its _id kept (an update document without $set).
ReplaceFields(doc, assignment) ==
    [f \in {"_id"} \cup DOMAIN assignment |->
        IF f \in DOMAIN assignment THEN assignment[f] ELSE doc[f]]

\* $set: the assigned fields take the new values, every other field stays.
SetFields(doc, assignment) ==
    [f \in DOMAIN doc \cup DOMAIN assignment |->
        IF f \in DOMAIN assignment THEN assignment[f] ELSE doc[f]]

MatchingPositions(coll, filter) ==
    { i \in DOMAIN coll : Matches(coll[i], filter) }

FirstMatch(coll, filter) ==
    CHOOSE i \in MatchingPositions(coll, filter) :
        \A j \in MatchingPositions(coll, filter) : i <= j

\* Mutant of UpdateOne: with no match a new document is inserted (upsert).
UpdateOneUpsert(coll, filter, assignment) ==
    IF MatchingPositions(coll, filter) = {}
    THEN Append(coll, SetFields([_id |-> Len(coll) + 1], assignment))
    ELSE [coll EXCEPT ![FirstMatch(coll, filter)] =
              SetFields(coll[FirstMatch(coll, filter)], assignment)]

\* updateOne(filter, { $set: assignment }): the first matching document in
\* natural order is updated; nothing changes when none matches.
UpdateOne(coll, filter, assignment) ==
    IF MatchingPositions(coll, filter) = {}
    THEN coll
    ELSE [coll EXCEPT ![FirstMatch(coll, filter)] =
              SetFields(coll[FirstMatch(coll, filter)], assignment)]

UpdateResult(coll, filter, assignment) ==
    IF MatchingPositions(coll, filter) = {}
    THEN [acknowledged |-> TRUE, matchedCount |-> 0, modifiedCount |-> 0]
    ELSE [acknowledged |-> TRUE, matchedCount |-> 1,
          modifiedCount |->
              IF UpdateOne(coll, filter, assignment) = coll THEN 0 ELSE 1]

\* Mutant of DeleteOne: every matching document is removed (deleteMany).
DeleteMany(coll, filter) ==
    SelectSeq(coll, LAMBDA d : ~ Matches(d, filter))

\* deleteOne(filter): the first matching document in natural order is
\* removed; nothing changes when none matches.
DeleteOne(coll, filter) ==
    IF MatchingPositions(coll, filter) = {}
    THEN coll
    ELSE LET k == FirstMatch(coll, filter)
         IN  SubSeq(coll, 1, k - 1) \o SubSeq(coll, k + 1, Len(coll))

DeleteResult(coll, filter) ==
    [acknowledged |-> TRUE,
     deletedCount |-> IF MatchingPositions(coll, filter) = {} THEN 0 ELSE 1]

(***************************************************************************)
(* The filter, projection and update documents of the sheet.               *)
(***************************************************************************)
GenreFilter == { <<"genre", "$eq", "Fiction">> }

PublishedAfterFilter == { <<"published_year", "$gte", 1960>> }

AuthorFilter == { <<"author", "$eq", "George Orwell">> }

UpdateFilter == { <<"title", "$eq", "1984">> }

UpdateAssignment == [price |-> 1299]

DeleteFilter == { <<"title", "$eq", "Brave New World">> }

InStockAfter2010Filter ==
    { <<"in_stock", "$eq", TRUE>>, <<"published_year", "$gt", 2010>> }

TitleAuthorPriceProjection ==
    [f \in {"title", "author", "price", "_id"} |-> IF f = "_id" THEN 0 ELSE 1]

ExplainFilter == { <<"title", "$eq", "1984">> }

TitleIndex == << <<"title", 1>> >>

AuthorYearIndex == << <<"author", 1>>, <<"published_year", -1>> >>

IdIndex == << <<"_id", 1>> >>

pageSize == 5

(***************************************************************************)
(* Initial states: the collection as the seed script left it.              *)
(***************************************************************************)
Seeded(coll) ==
    /\ books = coll
    /\ indexes = { IdIndex }
    /\ lastOp = "none"
    /\ result = <<>>
    /\ pages = <<>>

\* Every collection of at most MaxBooks catalogue documents.
Init ==
    \E n \in 0..MaxBooks :
        \E s \in [1..n -> Catalogue] :
            Seeded([i \in 1..n |-> WithId(s[i], i)])

\* Longer collections, several pages long: the catalogue repeated from any
\* starting point.
InitPage ==
    \E n \in 0..MaxPageBooks :
        \E o \in 0..(Len(CatalogueSeq) - 1) :
            Seeded([i \in 1..n |->
                      WithId(CatalogueSeq[((i - 1 + o) % Len(CatalogueSeq)) + 1], i)])

(***************************************************************************)
(* The entries of the sheet.                                               *)
(***************************************************************************)
\* A read: the shell shows out; the collection and its indexes stay.
Read(op, out) ==
    /\ lastOp' = op
    /\ result' = out
    /\ pages' = <<>>
    /\ UNCHANGED <<books, indexes>>

FindByGenre == Read("findByGenre", Find(books, GenreFilter))

FindPublishedAfter ==
    Read("findPublishedAfter", Match(books, PublishedAfterFilter))

FindByAuthor == Read("findByAuthor", Find(books, AuthorFilter))

UpdatePrice ==
    /\ books' = UpdateOne(books, UpdateFilter, UpdateAssignment)
    /\ result' = UpdateResult(books, UpdateFilter, UpdateAssignment)
    /\ lastOp' = "updateOne"
    /\ pages' = <<>>
    /\ UNCHANGED indexes

DeleteByTitle ==
    /\ books' = DeleteOne(books, DeleteFilter)
    /\ result' = DeleteResult(books, DeleteFilter)
    /\ lastOp' = "deleteOne"
    /\ pages' = <<>>
    /\ UNCHANGED indexes

FindInStockAfter2010 ==
    Read("findInStockAfter2010", Find(books, InStockAfter2010Filter))

ProjectTitleAuthorPrice ==
    Read("projection", Project(Find(books, {}), TitleAuthorPriceProjection))

\* Mutant of SortByPriceAscending: the collection itself is reordered.
SortByPriceAscendingInPlace ==
    \E sorted \in Sort(Range(Find(books, {})), "price", 1) :
        /\ books' = sorted
        /\ result' = sorted
        /\ lastOp' = "sortAscending"
        /\ pages' = <<>>
        /\ UNCHANGED indexes

SortByPriceAscending ==
    \E sorted \in Sort(Range(Find(books, {})), "price", 1) :
        Read("sortAscending", sorted)

SortByPriceDescending ==
    \E sorted \in Sort(Range(Find(books, {})), "price", -1) :
        Read("sortDescending", sorted)

\* Mutant of Page: pages counted from zero, skip(pageNumber * pageSize).
PageFromZero(coll, p) == Limit(Skip(Find(coll, {}), p * pageSize), pageSize)

\* find().skip((pageNumber - 1) * pageSize).limit(pageSize)
Page(coll, p) == Limit(Skip(Find(coll, {}), (p - 1) * pageSize), pageSize)

\* The number of pages of pageSize documents that coll fills.
PageCount(coll) == (Len(coll) + pageSize - 1) \div pageSize

\* Any page up to PagesBeyond past the last may be asked for; pages holds
\* what the requests made since the last other entry returned.
Paginate ==
    \E p \in 1..(PageCount(books) + PagesBeyond) :
        /\ result' = Page(books, p)
        /\ pages' = [q \in DOMAIN pages \cup {p} |->
                        IF q = p THEN Page(books, p) ELSE pages[q]]
        /\ lastOp' = "paginate"
        /\ UNCHANGED <<books, indexes>>

AveragePriceByGenre ==
    \E sorted \in Sort(GroupByGenre(books), "averagePrice", 1) :
        Read("averagePriceByGenre", sorted)

AuthorWithMostBooks ==
    \E sorted \in Sort(GroupByAuthor(books), "bookCount", -1) :
        Read("authorWithMostBooks", Limit(sorted, 1))

BooksByDecade ==
    \E sorted \in Sort(ProjectDecade(GroupByDecade(books)), "decade", 1) :
        Read("booksByDecade", sorted)

CreateIndex(keys, name) ==
    /\ indexes' = indexes \cup { keys }
    /\ result' = name
    /\ lastOp' = "createIndex"
    /\ pages' = <<>>
    /\ UNCHANGED books

CreateTitleIndex == CreateIndex(TitleIndex, "title_1")

CreateAuthorYearIndex ==
    CreateIndex(AuthorYearIndex, "author_1_published_year_-1")

\* explain("executionStats"): the plan and its counters, nothing else.
ExecutionStats(coll, filter, idx) ==
    LET found == Find(coll, filter)
        usable == \E k \in idx : \E c \in filter : k[1][1] = c[1]
    IN  [stage |-> IF usable THEN "IXSCAN" ELSE "COLLSCAN",
         nReturned |-> Len(found),
         totalDocsExamined |-> IF usable THEN Len(found) ELSE Len(coll)]

ExplainFindByTitle ==
    Read("explain", ExecutionStats(books, ExplainFilter, indexes))

Next ==
    \/ FindByGenre
    \/ FindPublishedAfter
    \/ FindByAuthor
    \/ UpdatePrice
    \/ DeleteByTitle
    \/ FindInStockAfter2010
    \/ ProjectTitleAuthorPrice
    \/ SortByPriceAscending
    \/ SortByPriceDescending
    \/ Paginate
    \/ AveragePriceByGenre
    \/ AuthorWithMostBooks
    \/ BooksByDecade
    \/ CreateTitleIndex
    \/ CreateAuthorYearIndex
    \/ ExplainFindByTitle

Spec == Init /\ [][Next]_vars

\* Pagination over the longer collections, with writes in between.
NextPage ==
    \/ Paginate
    \/ UpdatePrice
    \/ DeleteByTitle

SpecPage == InitPage /\ [][NextPage]_vars

(***************************************************************************)
(* Properties.  They are stated with the definitions below, which read the *)
(* collection directly and use none of the query operators above.          *)
(***************************************************************************)
Positions(coll) == DOMAIN coll

WithTitle(coll, t) == SelectSeq(coll, LAMBDA d : d.title = t)

WithoutTitle(coll, t) == SelectSeq(coll, LAMBDA d : d.title # t)

BooksOf(coll, a) == Cardinality({ i \in Positions(coll) : coll[i].author = a })

Authors(coll) == { coll[i].author : i \in Positions(coll) }

TopAuthors(coll) ==
    { a \in Authors(coll) :
        \A b \in Authors(coll) : BooksOf(coll, a) >= BooksOf(coll, b) }

Ids(docs) == { docs[i]._id : i \in DOMAIN docs }

\* C1: when several authors tie for the highest number of books, the
\* author-with-the-most-books pipeline returns one record for every one of
\* them (so its _id values are exactly the authors with the highest count).
C1_AllTiedAuthorsReturned ==
    lastOp = "authorWithMostBooks" =>
        /\ Ids(result) = TopAuthors(books)
        /\ Len(result) = Cardinality(TopAuthors(books))

\* C2 as stated: after the delete a read with the same predicate returns
\* nothing, and every record with another title is still there, unchanged.
C2_DeleteLeavesNoMatch ==
    [][lastOp' = "deleteOne" =>
          /\ WithTitle(books', "Brave New World") = <<>>
          /\ WithoutTitle(books', "Brave New World")
               = WithoutTitle(books, "Brave New World")]_vars

\* C2 amended: the delete removes the first matching record in natural
\* order and no other, so a read with the same predicate returns the
\* remaining matching records (none exactly when at most one matched), and
\* every record with another title is still there, unchanged.
C2_DeleteRemovesFirstMatchOnly ==
    [][lastOp' = "deleteOne" =>
          /\ WithTitle(books', "Brave New World")
               = IF WithTitle(books, "Brave New World") = <<>>
                 THEN <<>>
                 ELSE Tail(WithTitle(books, "Brave New World"))
          /\ WithoutTitle(books', "Brave New World")
               = WithoutTitle(books, "Brave New World")
          /\ IF WithTitle(books, "Brave New World") = <<>>
             THEN books' = books
             ELSE \E k \in Positions(books) :
                     /\ books[k].title = "Brave New World"
                     /\ \A j \in 1..(k - 1) :
                            books[j].title # "Brave New World"
                     /\ books' = [i \in 1..(Len(books) - 1) |->
                                     IF i < k THEN books[i] ELSE books[i + 1]]]_vars

\* The delete has removed one of several "Brave New World" records.
C2_Witness ==
    /\ lastOp = "deleteOne"
    /\ result.deletedCount = 1
    /\ WithTitle(books, "Brave New World") # <<>>

RECURSIVE Concat(_, _)
\* The pages 1..k of ps, one after the other.
Concat(ps, k) == IF k = 0 THEN <<>> ELSE Concat(ps, k - 1) \o ps[k]

\* ceil(n / pageSize)
PagesNeeded(n) ==
    CHOOSE k \in 0..n : k * pageSize >= n /\ (k = 0 \/ (k - 1) * pageSize < n)

AllPagesRead ==
    /\ lastOp = "paginate"
    /\ 1..PagesNeeded(Len(books)) \subseteq DOMAIN pages

\* C3: with no write in between, the pages 1 .. ceil(count/5) of the
\* pagination query, one after the other, are the full result of find();
\* every record is in exactly one of them; and asking again for a page
\* already read returns the same records.
C3_PagesPartitionResult ==
    /\ [](AllPagesRead =>
            /\ Concat(pages, PagesNeeded(Len(books))) = books
            /\ \A i \in Positions(books) :
                  Cardinality({ p \in 1..PagesNeeded(Len(books)) :
                                  \E j \in DOMAIN pages[p] :
                                      pages[p][j] = books[i] }) = 1
            /\ \A p \in 1..PagesNeeded(Len(books)) : Len(pages[p]) <= pageSize)
    /\ [][lastOp' = "paginate" =>
            \A p \in DOMAIN pages : p \in DOMAIN pages' /\ pages'[p] = pages[p]]_vars

\* Three pages have been read, the third one partly filled.
C3_Witness ==
    /\ AllPagesRead
    /\ PagesNeeded(Len(books)) = 3
    /\ Len(pages[1]) = pageSize
    /\ Len(pages[3]) = 1

\* C4: the update of "1984" leaves the number of records, every record with
\* another title, and every field but price of a "1984" record as they were.
C4_UpdateChangesOnlyPrice ==
    [][lastOp' = "updateOne" =>
          /\ Len(books') = Len(books)
          /\ \A i \in Positions(books) :
                /\ DOMAIN books'[i] = DOMAIN books[i]
                /\ books[i].title # "1984" => books'[i] = books[i]
                /\ \A f \in DOMAIN books[i] \ {"price"} :
                      books'[i][f] = books[i][f]]_vars

\* The update has changed the price of one of two "1984" records.
C4_Witness ==
    /\ lastOp = "updateOne"
    /\ result.modifiedCount = 1
    /\ \E i, j \in Positions(books) :
          /\ books[i].title = "1984" /\ books[i].price = 1299
          /\ books[j].title = "1984" /\ books[j].price = 1099

\* C5: the published-after query returns exactly the records published
\* strictly after 1960, and the in-stock query exactly those in stock and
\* published strictly after 2010.
C5_FiltersAreStrict ==
    /\ lastOp = "findPublishedAfter" =>
          Range(result) = { books[i] : i \in { j \in Positions(books) :
                                                 books[j].published_year > 1960 } }
    /\ lastOp = "findInStockAfter2010" =>
          Range(result) = { books[i] : i \in { j \in Positions(books) :
                                                 /\ books[j].in_stock
                                                 /\ books[j].published_year > 2010 } }

DecadeOf(year) == year - (year % 10)

\* C6: the decade pipeline puts a record of year y in bucket floor(y / 10)
\* (1975 in 197), returns one record per bucket with decade = bucket * 10,
\* a multiple of 10, with bookCount the number of records of that decade,
\* ordered by decade ascending.
C6_DecadesCounted ==
    /\ \A i \in Positions(books) :
          /\ DecadeKey(books[i]) * 10 <= books[i].published_year
          /\ books[i].published_year < DecadeKey(books[i]) * 10 + 10
          /\ books[i].published_year = 1975 => DecadeKey(books[i]) = 197
    /\ lastOp = "booksByDecade" =>
          /\ { result[j].decade : j \in DOMAIN result }
               = { DecadeOf(books[i].published_year) : i \in Positions(books) }
          /\ \A j \in DOMAIN result :
                /\ result[j].decade % 10 = 0
                /\ DOMAIN result[j] = {"decade", "bookCount"}
                /\ result[j].bookCount =
                      Cardinality({ i \in Positions(books) :
                          DecadeOf(books[i].published_year) = result[j].decade })
          /\ \A j, k \in DOMAIN result :
                j < k => result[j].decade < result[k].decade

\* A book of 1975 has been counted in decade 1970, beside another decade.
C6_Witness ==
    /\ lastOp = "booksByDecade"
    /\ \E i \in Positions(books) : books[i].published_year = 1975
    /\ Len(result) = 2
    /\ \E j \in DOMAIN result : result[j].decade = 1970 /\ result[j].bookCount = 1

Genres(coll) == { coll[i].genre : i \in Positions(coll) }

InGenre(coll, g) == { i \in Positions(coll) : coll[i].genre = g }

RECURSIVE TotalPrice(_, _)
\* The sum of the prices of the records of coll at the positions ps.
TotalPrice(coll, ps) ==
    IF ps = {}
    THEN 0
    ELSE LET i == CHOOSE x \in ps : TRUE
         IN  coll[i].price + TotalPrice(coll, ps \ {i})

\* C7: the genre pipeline returns one record per genre, whose averagePrice
\* is the sum of the prices of the records of that genre divided by their
\* number, in non-decreasing order of averagePrice.
C7_AveragePricePerGenre ==
    lastOp = "averagePriceByGenre" =>
        /\ Len(result) = Cardinality(Genres(books))
        /\ Ids(result) = Genres(books)
        /\ \A j \in DOMAIN result :
              /\ result[j].averagePrice.den > 0
              /\ result[j].averagePrice.num
                     * Cardinality(InGenre(books, result[j]._id))
                   = result[j].averagePrice.den
                     * TotalPrice(books, InGenre(books, result[j]._id))
        /\ \A j, k \in DOMAIN result :
              j < k =>
                  result[j].averagePrice.num * result[k].averagePrice.den
                    <= result[k].averagePrice.num * result[j].averagePrice.den

\* The average of two records of one genre with different prices.
C7_Witness ==
    /\ lastOp = "averagePriceByGenre"
    /\ \E i, j \in Positions(books) :
          /\ books[i].genre = books[j].genre
          /\ books[i].price < books[j].price
          /\ result = << [_id |-> books[i].genre,
                          averagePrice |->
                              [num |-> books[i].price + books[j].price,
                               den |-> 2]] >>

\* C8: the projection query returns one record per stored record, holding
\* its title, author and price as stored and no other field.
C8_ProjectionFields ==
    lastOp = "projection" =>
        /\ Len(result) = Len(books)
        /\ \A i \in Positions(books) :
              /\ DOMAIN result[i] = {"title", "author", "price"}
              /\ result[i].title = books[i].title
              /\ result[i].author = books[i].author
              /\ result[i].price = books[i].price

\* Two stored records have been projected.
C8_Witness ==
    /\ lastOp = "projection"
    /\ Len(result) = 2
    /\ result[1] # result[2]

\* C9: only updateOne and deleteOne change the records: every find, sort,
\* skip/limit, aggregate, createIndex and explain leaves them as they were.
C9_ReadsLeaveRecords ==
    [][lastOp' \notin {"updateOne", "deleteOne"} => books' = books]_vars

\* An explain has run over a non-empty collection after createIndex.
C9_Witness ==
    /\ lastOp = "explain"
    /\ result.stage = "IXSCAN"
    /\ result.nReturned = 1
    /\ Len(books) = 2

\* C10: with no matching record the update and the delete leave the
\* collection as it was and still acknowledge; a page past the last one is
\* empty.
C10_NoMatchIsNoOp ==
    /\ [][/\ (lastOp' = "updateOne" /\ WithTitle(books, "1984") = <<>>) =>
               /\ books' = books
               /\ result' = [acknowledged |-> TRUE, matchedCount |-> 0,
                             modifiedCount |-> 0]
          /\ (lastOp' = "deleteOne"
                /\ WithTitle(books, "Brave New World") = <<>>) =>
               /\ books' = books
               /\ result' = [acknowledged |-> TRUE, deletedCount |-> 0]]_vars
    /\ [](\A p \in DOMAIN pages :
            p > PagesNeeded(Len(books)) => pages[p] = <<>>)
    /\ [](lastOp = "paginate" /\ result # <<>> =>
            \E p \in 1..PagesNeeded(Len(books)) :
                p \in DOMAIN pages /\ pages[p] = result)

\* An update that matched nothing in a non-empty collection.
C10_Witness ==
    /\ lastOp = "updateOne"
    /\ result.matchedCount = 0
    /\ books # <<>>

\* A page past the last one has been asked for, after a full one.
C10_WitnessPage ==
    /\ lastOp = "paginate"
    /\ result = <<>>
    /\ books # <<>>

=============================================================================
